---- MODULE Spec2Model ----
(***************************************************************************)
(* ios-bot: the MCP stdio client (mcp_client.py) and the script engine     *)
(* (xcuitest.py).                                                          *)
(*                                                                         *)
(* Part 1 models MCPClient: the id counter, the server process, the reader *)
(* thread that decodes lines into the response queue, and _call as it runs *)
(* on each caller thread, one action per step at which another thread or   *)
(* the clock can interleave.                                               *)
(***************************************************************************)
EXTENDS Integers, Sequences, FiniteSets, TLC

VARIABLES
    proc,            \* self._proc: "none" | "running" | "exited"
    next_id,         \* self._next_id
    response_queue,  \* self._response_queue, a FIFO of decoded messages
    stdin,           \* the request ids written to the server's stdin, in order
    call,            \* per caller thread: the frame of its running _call
    outcome,         \* per caller thread: how its last _call ended
    started,         \* history: the req_id of every _call, in order of line 94
    nlines,          \* history: lines the reader has consumed
    nenq,            \* history: messages the reader has enqueued
    delivered,       \* history: seq of every message a _call ended on
    steps,           \* run_script: the input step list
    screenshot_every_step,   \* run_script: the flag of that name
    spc,             \* run_script: "idle" | "loop" | "returned" | "raised"
    idx,             \* run_script: iterations of the for loop made so far
    results,         \* run_script: result.steps
    ops,             \* history: the operations dispatched, <<step number, operation>>
    raised,          \* history: the step numbers whose execution raised
    thrown,          \* history: the exceptions raised in the loop body, with
                     \* the step number and the place ("step", "bonus",
                     \* "diagnostic")
    seen,            \* history: what the environment answered to each step
    query,           \* find_element called on its own: its arguments
    answer,          \* find_element called on its own: what it came to
    _client,         \* the module global _client: 0 for None, else the
                     \* k-th MCPClient instance constructed at line 169
    popens,          \* history: the server processes started
    hs,              \* history: the handshake _call of connect, its id and how it ended
    strays,          \* history: the messages that arrived for a call that had timed out
    rlog,            \* history: the kind of every line the reader received
    reader,          \* self._reader_thread: "none" | "running" | "ended"
    dpc,             \* disconnect: "idle" | "closed" | "waiting" | "returned" | "raised"
    dlog             \* history: what disconnect did to the process, in order

clientVars == <<proc, next_id, response_queue, stdin, call, outcome,
                started, nlines, nenq, delivered>>
probeVars == <<seen, query, answer>>
scriptVarsButSeen == <<steps, screenshot_every_step, spc, idx, results, ops, raised, thrown>>
scriptVars == <<steps, screenshot_every_step, spc, idx, results, ops, raised, thrown,
                probeVars>>
sessionVars == <<_client, popens, hs, strays, rlog, reader, dpc, dlog>>
sessionVarsButHs == <<_client, popens, strays, rlog, reader, dpc, dlog>>
vars == <<clientVars, scriptVars, sessionVars>>

(* ------------------------------ bounds --------------------------------- *)

Callers == {"A", "B"}     \* caller threads
Main == "A"               \* the thread whose get_client connects
MaxEvents == 4            \* _call invocations plus server lines over a run
MaxDisconnects == 2       \* invocations of disconnect over a run

\* The ids of the requests the server has been sent: it answers those.
WireIds == {stdin[i] : i \in 1..Len(stdin)}

(* ------------------------- lines and messages -------------------------- *)

\* What the server can put in its n-th response object.
Objects(n) ==
    {[id |-> i, result |-> n] : i \in WireIds} \cup
    {[id |-> i, error |-> n] : i \in WireIds} \cup
    {[method |-> "notification"]}

\* The lines the reader can receive: blank, not JSON, JSON that is not an
\* object, a JSON object.
Lines(n) ==
    {[text |-> "blank"], [text |-> "garbage"], [text |-> "json", type |-> "array"]} \cup
    {[text |-> "json", type |-> "object", obj |-> o] : o \in Objects(n)}

\* json.loads: a decoded value, or JSONDecodeError.
json_loads(line) ==
    IF line.text = "json"
    THEN IF line.type = "object"
         THEN [ok |-> TRUE, type |-> "object", obj |-> line.obj]
         ELSE [ok |-> TRUE, type |-> line.type]
    ELSE [ok |-> FALSE]

\* The decoded value as it sits in the queue, tagged with its arrival number
\* (history only, never read by the client).
Tagged(v, n) ==
    IF v.type = "object"
    THEN [seq |-> n, type |-> "object", obj |-> v.obj]
    ELSE [seq |-> n, type |-> v.type]

NoMsg == [seq |-> 0, type |-> "none"]

NoHandshake == [id |-> 0, state |-> "none"]

Seqs(q) == {q[i].seq : i \in 1..Len(q)}

(* ------------------------------- _call --------------------------------- *)

\* The frame of _call: its locals, and two history fields: drained (the
\* messages it has appended to pending) and answered (a response bearing
\* its id was enqueued before its deadline passed).
IdleCall ==
    [pc |-> "idle", req_id |-> 0, tmp |-> 0, pending |-> <<>>, msg |-> NoMsg,
     drained |-> {}, answered |-> FALSE]

NoOutcome ==
    [kind |-> "none", req_id |-> 0, value |-> 0, msg |-> NoMsg,
     dropped |-> {}, drained |-> {}, answered |-> FALSE]

Running(t) == call[t].pc # "idle"
Waiting(t) == call[t].pc = "l105"

\* msg.get("id") on a dict
HasId(m) == "id" \in DOMAIN m.obj

IdMatches_AnyId(m, req_id) == HasId(m)

\* line 106: msg.get("id") == req_id
IdMatches(m, req_id) == HasId(m) /\ m.obj.id = req_id

\* line 110: "error" in msg
HasError(m) == "error" \in DOMAIN m.obj

\* line 112: msg.get("result", {})
EmptyDict == 0
ResultOf(m) == IF "result" \in DOMAIN m.obj THEN m.obj.result ELSE EmptyDict

PutBackFirst_UnlessError(m, pending) == pending # <<>> /\ ~HasError(m)

\* lines 108-110: on a match the pending messages are put back first,
\* whether or not the response carries an error.
PutBackFirst(m, pending) == pending # <<>>

\* _call returns or raises: the frame is gone, and with it whatever is
\* still in its pending list.
End(t, kind, value, m, pending) ==
    /\ outcome' = [outcome EXCEPT ![t] =
          [kind |-> kind, req_id |-> call[t].req_id, value |-> value,
           msg |-> m, dropped |-> Seqs(pending),
           drained |-> call[t].drained \cup Seqs(pending),
           answered |-> call[t].answered]]
    /\ call' = [call EXCEPT ![t] = IdleCall]

\* lines 110-112: raise on an error payload, else return the result.
Deliver(t, m, pending) ==
    /\ IF HasError(m)
       THEN End(t, "RemoteError", m.obj.error, m, pending)
       ELSE End(t, "result", ResultOf(m), m, pending)
    /\ delivered' = delivered \cup {m.seq}

\* lines 102-105 and 118-120, entered with `pending` as the pending list.
\* The timeout is the caller's and the clock is the environment's, so where
\* the deadline falls is not determined.  The clock is read at line 102 and
\* again at line 103:
\*   - before the deadline at both: on to the get of line 105;
\*   - before the deadline at 102 and past it at 103: remaining is negative
\*     and Queue.get raises ValueError, which no handler of _call catches;
\*   - past the deadline at 102: the loop ends, pending is put back (lines
\*     118-119) and TimeoutError is raised (line 120).
While(t, pending) ==
    \/ /\ call' = [call EXCEPT ![t].pc = "l105", ![t].pending = pending,
                               ![t].drained = @ \cup Seqs(pending)]
       /\ UNCHANGED outcome
    \/ End(t, "ValueError", 0, NoMsg, pending)
    \/ IF pending # <<>>
       THEN /\ call' = [call EXCEPT ![t].pc = "l118", ![t].pending = pending,
                                    ![t].drained = @ \cup Seqs(pending)]
            /\ UNCHANGED outcome
       ELSE End(t, "Timeout", 0, NoMsg, <<>>)

\* The dict messages in the queue or in some call's pending list.
Buffered ==
    {m \in {response_queue[i] : i \in 1..Len(response_queue)} \cup
            UNION {{call[u].pending[i] : i \in 1..Len(call[u].pending)} : u \in Callers} :
        m.type = "object"}

\* lines 92-94: a caller thread enters _call and reads the counter.
Enter(t) ==
    /\ call[t].pc = "idle"
    /\ Len(started) + nlines < MaxEvents
    /\ call' = [call EXCEPT ![t] =
          [IdleCall EXCEPT !.pc = "l95", !.req_id = next_id,
                           !.answered = \E m \in Buffered : IdMatches(m, next_id)]]
    /\ outcome' = [outcome EXCEPT ![t] = NoOutcome]
    /\ started' = Append(started, next_id)

IsNone_Always(c) == TRUE

\* line 168: _client is None
IsNone(c) == c = 0

\* The handshake call has ended when call' and outcome' are those of the step
\* that ends it: record how.
HsEnds(t) ==
    hs' = IF hs.state = "running" /\ t = Main /\ call'[t].pc = "idle"
          THEN [hs EXCEPT !.state = outcome'[t].kind]
          ELSE hs

\* get_client finding no client, lines 168-170, and connect, lines 50-70:
\* the new client is bound to _client, then the process and the reader are
\* started, then the handshake _call is made.  Call Main the thread that
\* asks first.
Connect(t) ==
    /\ t = Main
    /\ IsNone(_client)
    /\ _client' = _client + 1
    /\ proc' = "running"
    /\ popens' = popens + 1
    /\ reader' = "running"
    /\ hs' = [id |-> next_id, state |-> "running"]
    /\ Enter(t)
    /\ UNCHANGED <<scriptVars, strays, rlog, dpc, dlog,
                   next_id, response_queue, stdin, nlines, nenq, delivered>>

\* list_tools / call_tool, lines 122-129: a _call.
Invoke(t) ==
    /\ Enter(t)
    /\ UNCHANGED <<scriptVars, sessionVars, proc, next_id, response_queue, stdin, nlines, nenq, delivered>>

\* line 95, self._next_id += 1: the load ...
L95_load(t) ==
    /\ call[t].pc = "l95"
    /\ call' = [call EXCEPT ![t].tmp = next_id, ![t].pc = "l95s"]
    /\ UNCHANGED <<scriptVars, sessionVars, proc, next_id, response_queue, stdin, outcome, started,
                   nlines, nenq, delivered>>

\* ... and the store.
L95_store(t) ==
    /\ call[t].pc = "l95s"
    /\ next_id' = call[t].tmp + 1
    /\ call' = [call EXCEPT ![t].pc = "l96", ![t].tmp = 0]
    /\ UNCHANGED <<scriptVars, sessionVars, proc, response_queue, stdin, outcome, started, nlines,
                   nenq, delivered>>

Written_Resent(frames, r) == Append(Append(frames, r), r)

\* lines 89-90: one write of the frame and one flush
Written(frames, r) == Append(frames, r)

\* disconnect has closed self._proc.stdin (line 155)
StdinClosed == \E i \in 1..Len(dlog) : dlog[i] = "close"

NotRunning_NeverStarted(p) == p = "none"

\* line 87: self._proc is None or self._proc.poll() is not None
NotRunning(p) == p # "running"

\* lines 96-103: _send (lines 85-90) raises when the process is not running,
\* else writes the frame; then pending = [], the deadline is set and the
\* loop is entered.
L96_send(t) ==
    /\ call[t].pc = "l96"
    /\ IF NotRunning(proc)
       THEN /\ End(t, "TransportUnavailable", 0, NoMsg, <<>>)
            /\ UNCHANGED stdin
       ELSE IF StdinClosed
       THEN /\ End(t, "ValueError", 0, NoMsg, <<>>)   \* write to a closed file
            /\ UNCHANGED stdin
       ELSE /\ stdin' = Written(stdin, call[t].req_id)
            /\ While(t, <<>>)
    /\ HsEnds(t)
    /\ UNCHANGED <<scriptVars, sessionVarsButHs, proc, next_id, response_queue, started, nlines, nenq, delivered>>

\* lines 105-114: get returns the head of the queue.
L105_get(t) ==
    /\ call[t].pc = "l105"
    /\ response_queue # <<>>
    /\ LET m == Head(response_queue)
           pending == call[t].pending
       IN /\ response_queue' = Tail(response_queue)
          /\ IF m.type # "object"
             THEN /\ End(t, "AttributeError", 0, NoMsg, pending)  \* msg.get on a non-dict
                  /\ UNCHANGED delivered
             ELSE IF IdMatches(m, call[t].req_id)
                  THEN IF PutBackFirst(m, pending)
                       THEN /\ call' = [call EXCEPT ![t].msg = m, ![t].pc = "l108"]
                            /\ UNCHANGED <<outcome, delivered>>
                       ELSE Deliver(t, m, pending)
                  ELSE /\ While(t, Append(pending, m))    \* line 114, then 102
                       /\ UNCHANGED delivered
    /\ HsEnds(t)
    /\ UNCHANGED <<scriptVars, sessionVarsButHs, proc, next_id, stdin, started, nlines, nenq>>

\* lines 115-116: queue.Empty once min(remaining, 1.0) has elapsed with
\* nothing in the queue; back to the loop test.
L115_empty(t) ==
    /\ call[t].pc = "l105"
    /\ response_queue = <<>>
    /\ While(t, call[t].pending)
    /\ HsEnds(t)
    /\ UNCHANGED <<scriptVars, sessionVarsButHs, proc, next_id, response_queue, stdin, started, nlines, nenq, delivered>>

\* lines 108-112: one put of the put-back loop; after the last one the
\* response is delivered.
L108_putback(t) ==
    /\ call[t].pc = "l108"
    /\ response_queue' = Append(response_queue, Head(call[t].pending))
    /\ IF Len(call[t].pending) > 1
       THEN /\ call' = [call EXCEPT ![t].pending = Tail(@)]
            /\ UNCHANGED <<outcome, delivered>>
       ELSE Deliver(t, call[t].msg, <<>>)
    /\ HsEnds(t)
    /\ UNCHANGED <<scriptVars, sessionVarsButHs, proc, next_id, stdin, started, nlines, nenq>>

\* lines 118-120: one put of the put-back loop; after the last one
\* TimeoutError is raised.
L118_putback(t) ==
    /\ call[t].pc = "l118"
    /\ response_queue' = Append(response_queue, Head(call[t].pending))
    /\ IF Len(call[t].pending) > 1
       THEN /\ call' = [call EXCEPT ![t].pending = Tail(@)]
            /\ UNCHANGED outcome
       ELSE End(t, "Timeout", 0, NoMsg, <<>>)
    /\ HsEnds(t)
    /\ UNCHANGED <<scriptVars, sessionVarsButHs, proc, next_id, stdin, started, nlines, nenq,
                   delivered>>

(* -------------------------- reader and server -------------------------- *)

\* A message that bears the id of a call that has already raised Timeout.
Late(m) ==
    /\ m.type = "object"
    /\ "id" \in DOMAIN m.obj
    /\ \E t \in Callers : outcome[t].kind = "Timeout" /\ outcome[t].req_id = m.obj.id

Catches_Nothing(exc) == FALSE

\* line 82: except json.JSONDecodeError
Catches(exc) == exc = "JSONDecodeError"

\* _read_loop, lines 73-83, for one line of the server's stdout.
ReadLine ==
    /\ proc = "running"
    /\ reader = "running"
    /\ Len(started) + nlines < MaxEvents
    /\ nlines' = nlines + 1
    /\ \E line \in Lines(nenq + 1) :
         /\ rlog' = Append(rlog, line.text)
         /\ IF line.text = "blank"
            THEN UNCHANGED <<response_queue, nenq, call, strays, reader>>  \* continue
            ELSE LET v == json_loads(line)
                 IN IF v.ok
                    THEN LET m == Tagged(v, nenq + 1)
                         IN /\ response_queue' = Append(response_queue, m)
                            /\ nenq' = nenq + 1
                            /\ strays' = IF Late(m) THEN strays \cup {m.seq} ELSE strays
                            /\ UNCHANGED reader
                            /\ call' = [t \in Callers |->
                                  IF /\ m.type = "object"
                                     /\ IdMatches(m, call[t].req_id)
                                     /\ call[t].pc \in {"l95", "l95s", "l96", "l105"}
                                  THEN [call[t] EXCEPT !.answered = TRUE]
                                  ELSE call[t]]
                    ELSE /\ UNCHANGED <<response_queue, nenq, call, strays>>
                         /\ reader' = IF Catches("JSONDecodeError")
                                       THEN reader       \* pass
                                       ELSE "ended"      \* the thread dies
    /\ UNCHANGED <<scriptVars, _client, popens, hs, dpc, dlog,
                   proc, next_id, stdin, outcome, started, delivered>>

\* The server process exits on its own; its stdout reaches end of file and
\* the loop of line 75 ends.
ServerExit ==
    /\ proc = "running"
    /\ proc' = "exited"
    /\ reader' = IF reader = "running" THEN "ended" ELSE reader
    /\ UNCHANGED <<scriptVars, _client, popens, hs, strays, rlog, dpc, dlog, next_id, response_queue, stdin, call, outcome, started,
                   nlines, nenq, delivered>>

(* ----------------------- get_client and disconnect --------------------- *)

\* get_client finding no client, lines 168-170, when Popen (line 52) raises:
\* the client is bound to _client and has no process.
ConnectFails(t) ==
    /\ t = Main
    /\ IsNone(_client)
    /\ _client' = _client + 1
    /\ UNCHANGED <<clientVars, scriptVars, popens, hs, strays, rlog, reader, dpc, dlog>>

\* get_client finding the client, lines 168 and 171, and a capability call
\* on it.
Operation(t) ==
    /\ ~IsNone(_client)
    /\ Invoke(t)

Invocations == Cardinality({i \in 1..Len(dlog) : dlog[i] = "disconnect"})

\* disconnect, lines 151-155: nothing to do unless the process is running;
\* else close its stdin.
Disconnect ==
    /\ dpc \in {"idle", "returned", "raised"}
    /\ Invocations < MaxDisconnects
    /\ IF NotRunning(proc)
       THEN /\ dpc' = "returned"
            /\ dlog' = Append(dlog, "disconnect")
       ELSE /\ dpc' = "closed"
            /\ dlog' = dlog \o <<"disconnect", "close">>
    /\ UNCHANGED <<clientVars, scriptVars, _client, popens, hs, strays, rlog, reader>>

\* line 158: self._proc.terminate()
D_terminate ==
    /\ dpc = "closed"
    /\ dpc' = "waiting"
    /\ dlog' = Append(dlog, "terminate")
    /\ UNCHANGED <<clientVars, scriptVars, _client, popens, hs, strays, rlog, reader>>

\* line 159: self._proc.wait(timeout=5) returns once the process has exited,
\* and raises TimeoutExpired when the five seconds pass first.
D_wait ==
    /\ dpc = "waiting"
    /\ dpc' = IF proc = "exited" THEN "returned" ELSE "raised"
    /\ dlog' = Append(dlog, "wait")
    /\ UNCHANGED <<clientVars, scriptVars, _client, popens, hs, strays, rlog, reader>>

NextSession ==
    \/ Connect(Main)
    \/ ConnectFails(Main)
    \/ Operation(Main)
    \/ L95_load(Main)
    \/ L95_store(Main)
    \/ L96_send(Main)
    \/ L105_get(Main)
    \/ L115_empty(Main)
    \/ L108_putback(Main)
    \/ L118_putback(Main)
    \/ ReadLine
    \/ ServerExit
    \/ Disconnect
    \/ D_terminate
    \/ D_wait

(* --------------------------- specification ----------------------------- *)

\* find_element not called
NoQuery == [called |-> FALSE]
NoAnswer == [state |-> "none"]


\* MCPClient.__init__, lines 44-48
Init ==
    /\ proc = "none"
    /\ next_id = 1
    /\ response_queue = <<>>
    /\ stdin = <<>>
    /\ call = [t \in Callers |-> IdleCall]
    /\ outcome = [t \in Callers |-> NoOutcome]
    /\ started = <<>>
    /\ nlines = 0
    /\ nenq = 0
    /\ delivered = {}
    /\ steps = <<>>
    /\ screenshot_every_step = FALSE
    /\ spc = "idle"
    /\ idx = 0
    /\ results = <<>>
    /\ ops = <<>>
    /\ raised = {}
    /\ thrown = <<>>
    /\ seen = <<>>
    /\ query = NoQuery
    /\ answer = NoAnswer
    /\ _client = 0
    /\ popens = 0
    /\ hs = NoHandshake
    /\ strays = {}
    /\ rlog = <<>>
    /\ reader = "none"
    /\ dpc = "idle"
    /\ dlog = <<>>

Next ==
    \/ \E t \in Callers : Connect(t)
    \/ \E t \in Callers : Invoke(t)
    \/ \E t \in Callers : L95_load(t)
    \/ \E t \in Callers : L95_store(t)
    \/ \E t \in Callers : L96_send(t)
    \/ \E t \in Callers : L105_get(t)
    \/ \E t \in Callers : L115_empty(t)
    \/ \E t \in Callers : L108_putback(t)
    \/ \E t \in Callers : L118_putback(t)
    \/ ReadLine
    \/ ServerExit

Spec == Init /\ [][Next]_vars

\* One caller thread going through get_client, and disconnect.
SpecSession == Init /\ [][NextSession]_vars

(* ------------------------- properties of _call ------------------------- *)

\* The message m is an object bearing the id r; it carries an error payload.
Bears(m, r) == m.type = "object" /\ "id" \in DOMAIN m.obj /\ m.obj.id = r
CarriesError(m) == m.type = "object" /\ "error" \in DOMAIN m.obj

\* The number of _call invocations that were given the id r.
Uses(r) == Cardinality({i \in 1..Len(started) : started[i] = r})

C5_UnansweredTimesOut ==
    \A t \in Callers :
        (outcome[t].kind \notin {"none", "TransportUnavailable"} /\ ~outcome[t].answered)
            => outcome[t].kind = "Timeout"

\* C6: every invocation of _call gets an id strictly greater than the ids of
\* the invocations that started before it.
C6_IdsIncrease ==
    \A i, j \in 1..Len(started) : i < j => started[i] < started[j]

\* C7: a _call that ends on a response carrying an error payload raises
\* RemoteError with that payload (and a _call that returns a result ended on
\* a response without one), and every message it had drained has been put
\* back by then: none is left in its pending list.
C7_RemoteError ==
    \A t \in Callers :
        /\ outcome[t].kind = "RemoteError" =>
              /\ Bears(outcome[t].msg, outcome[t].req_id)
              /\ CarriesError(outcome[t].msg)
              /\ outcome[t].value = outcome[t].msg.obj.error
              /\ outcome[t].dropped = {}
        /\ outcome[t].kind = "result" => ~CarriesError(outcome[t].msg)

\* A _call has raised RemoteError after draining a message that was not its
\* own.
C7_Witness ==
    \E t \in Callers : outcome[t].kind = "RemoteError" /\ outcome[t].drained # {}

\* C8: every _call ends by returning the result or by raising RemoteError,
\* Timeout or TransportUnavailable.
C8_TypedOutcome ==
    \A t \in Callers :
        outcome[t].kind \in {"none", "result", "RemoteError", "Timeout",
                             "TransportUnavailable"}

\* C9: no call times out, its response having arrived before its deadline,
\* while another call that keeps waiting holds that response in its pending
\* list.
C9_NoHeadOfLine ==
    \A a, b \in Callers :
        ~ /\ a # b
          /\ outcome[b].kind = "Timeout" /\ outcome[b].answered
          /\ Uses(outcome[b].req_id) = 1
          /\ Waiting(a)
          /\ \E i \in 1..Len(call[a].pending) :
                Bears(call[a].pending[i], outcome[b].req_id)

\* The places where the enqueued message n is.
Places(n) ==
    Cardinality({i \in 1..Len(response_queue) : response_queue[i].seq = n})
    + Cardinality({<<t, i>> \in Callers \X (1..nenq) :
                      i <= Len(call[t].pending) /\ call[t].pending[i].seq = n})
    + Cardinality({t \in Callers : call[t].msg.seq = n})
    + Cardinality({n} \cap delivered)

\* C10: every enqueued message is in exactly one place (the queue, one
\* call's pending list, or delivered to one call), and a _call that ends
\* leaves none of the messages it drained behind.
C10_Conservation ==
    /\ \A n \in 1..nenq : Places(n) = 1
    /\ \A t \in Callers : outcome[t].dropped = {}

\* C11: a response that arrives for a call that has already raised Timeout
\* is never delivered to any call and is never lost: it is in the queue, or
\* in the pending list of a call that is still running and will put it
\* back; and a call that drained it and returned has returned the response
\* bearing its own id.
C11_StrayStaysBuffered ==
    /\ \A n \in strays : n \notin delivered /\ Places(n) = 1
    /\ \A t \in Callers :
          (outcome[t].kind = "result" /\ outcome[t].drained \cap strays # {}) =>
              /\ Bears(outcome[t].msg, outcome[t].req_id)
              /\ outcome[t].msg.seq \notin strays

\* The thread t executes line 96 in this step.
Sends(t) == call[t].pc = "l96" /\ call'[t].pc # "l96"

\* C13: a _call that reaches its write when the server process was never
\* started or has exited raises TransportUnavailable there: nothing is
\* written, the call is over without having waited, and the queue is as it
\* was; and TransportUnavailable is raised in no other way.
C13_TransportUnavailable ==
    [][\A t \in Callers :
          /\ (Sends(t) /\ proc \in {"none", "exited"}) =>
                /\ outcome'[t].kind = "TransportUnavailable"
                /\ call'[t].pc = "idle"
                /\ stdin' = stdin
                /\ response_queue' = response_queue
          /\ (outcome'[t].kind = "TransportUnavailable" /\ outcome[t].kind = "none") =>
                Sends(t) /\ proc \in {"none", "exited"}]_vars

\* a call has raised TransportUnavailable, the process having exited with
\* messages in the queue
C13_Witness ==
    \E t \in Callers :
        /\ outcome[t].kind = "TransportUnavailable"
        /\ proc = "exited"
        /\ response_queue # <<>>
        /\ outcome[t].req_id \notin WireIds

\* The lines of kind k among the lines the reader has received.
Received(k) == {i \in 1..Len(rlog) : rlog[i] = k}

\* The reader has enqueued one message in this step: it is the next in
\* arrival order and it went to the tail of the queue.
EnqueuedAtTail ==
    /\ nenq' = nenq + 1
    /\ Len(response_queue') = Len(response_queue) + 1
    /\ response_queue'[Len(response_queue')].seq = nenq'
    /\ \A i \in 1..Len(response_queue) : response_queue'[i] = response_queue[i]

\* C12: a line that is not valid JSON is not enqueued and does not stop the
\* reader: at all times the messages enqueued are exactly as many as the
\* well-formed lines received and the reader runs as long as the process
\* does, and every message is enqueued once, at the tail, in arrival order.
C12_GarbageDropped ==
    /\ [](nenq = Cardinality(Received("json")))
    /\ [](proc = "running" => reader = "running")
    /\ [][nenq' # nenq => EnqueuedAtTail]_vars

\* a garbage line came between two well-formed lines, and both of these are
\* in the queue, in that order
C12_Witness ==
    /\ \E i, j, k \in 1..Len(rlog) :
          /\ i < j /\ j < k
          /\ rlog[i] = "json" /\ rlog[j] = "garbage" /\ rlog[k] = "json"
    /\ Len(response_queue) = 2
    /\ response_queue[1].seq = 1 /\ response_queue[2].seq = 2

(* ------------------- claims about the session -------------------------- *)

Finished == dpc \in {"returned", "raised"}

\* what the last invocation of disconnect has done so far
LastRun ==
    LET starts == {i \in 1..Len(dlog) : dlog[i] = "disconnect"}
        last == CHOOSE i \in starts : \A k \in starts : k <= i
    IN  IF starts = {} THEN <<>> ELSE SubSeq(dlog, last + 1, Len(dlog))

IsPrefix(a, b) == Len(a) <= Len(b) /\ \A i \in 1..Len(a) : a[i] = b[i]

\* C14: disconnect on a running process closes its input stream, asks it to
\* terminate and waits for it, in this order, and whenever disconnect has
\* finished, normally or not, the process is no longer running.
C14_StopsProcess ==
    /\ IsPrefix(LastRun, <<"close", "terminate", "wait">>)
    /\ (Finished /\ LastRun # <<>>) => proc # "running"

\* a step that invokes disconnect
Disconnects == Len(dlog') > Len(dlog) /\ dlog'[Len(dlog) + 1] = "disconnect"

\* C15: disconnect invoked when the client was never connected, when the
\* process has exited, or after an earlier disconnect of this process,
\* returns at once: it raises nothing, requests no termination and leaves
\* the process, the id counter and the response queue as they were.
C15_NoOpDisconnect ==
    [][(Disconnects /\ (proc \in {"none", "exited"} \/ StdinClosed)) =>
           /\ dpc' = "returned"
           /\ dlog' = Append(dlog, "disconnect")
           /\ proc' = proc
           /\ next_id' = next_id
           /\ response_queue' = response_queue]_vars

\* a step that writes a request to the server
Writes == Len(stdin') = Len(stdin) + 1

\* C16: the initialize request is the first request written, and any other
\* request is written only once the handshake has returned its result, also
\* after a connect whose handshake timed out or returned an error.
C16_HandshakeFirst ==
    [][Writes =>
          \/ stdin = <<>> /\ hs.state = "running" /\ stdin'[1] = hs.id
          \/ stdin # <<>> /\ hs.state = "result"]_vars

\* C17: over any sequence of get_client invocations from the caller's
\* thread at most one client is constructed and connected and at most one
\* server process is started, so every invocation returns the same
\* instance.
C17_Singleton == _client <= 1 /\ popens <= _client

\* three invocations of get_client, the first of which started the server
C17_Witness == _client = 1 /\ popens = 1 /\ Len(started) >= 3 /\ call[Main].pc = "idle"

(* ===================================================================== *)
(* Part 2: the script engine, xcuitest.py                                 *)
(*                                                                         *)
(* Python strings that the code inspects (lower(), in, ==) are sequences  *)
(* of one-character strings; None and "" of such a string are both <<>>,  *)
(* which the code never tells apart (it only tests their truth).  An      *)
(* exception is the string of its message; None is the absence of one.    *)
(* ===================================================================== *)

MaxSteps == 3             \* longest input step list

None == "None"

\* the upper-case letters are B, E, S, T, U and W; "Unknown" stands for
\* the letters of that word
lower_char(c) ==
    CASE c = "B" -> "b"
      [] c = "E" -> "e"
      [] c = "S" -> "s"
      [] c = "T" -> "t"
      [] c = "U" -> "u"
      [] c = "W" -> "w"
      [] c = "Unknown" -> "unknown"
      [] OTHER -> c

\* str.lower()
lower(str) == [i \in 1..Len(str) |-> lower_char(str[i])]

\* sub in str
StrIn(sub, str) ==
    \E k \in 0..(Len(str) - Len(sub)) : SubSeq(str, k + 1, k + Len(sub)) = sub

\* dict.get(key, default)
Get(d, key, default) == IF key \in DOMAIN d THEN d[key] ELSE default

(* ------------------------- what the tools answer ------------------------ *)

\* JSON values: a list of values, a dict (the function of its keys) and
\* anything else; the empty dict has no key
JList(items) == [kind |-> "list", items |-> items]
JDict(fields) == [kind |-> "dict", fields |-> fields]
JScalar == [kind |-> "scalar"]
JEmpty == [k \in {} |-> 0]

\* nodes of an accessibility tree
SettingsNode == [label |-> <<"S", "e", "t">>, identifier |-> <<"b", "1">>,
                 elementType |-> <<"B">>,
                 frame |-> [x |-> 10, y |-> 20, width |-> 100, height |-> 40]]
FieldNode == [identifier |-> <<"f", "1">>, elementType |-> <<"T">>,
              value |-> <<"s", "e", "t">>,
              frame |-> [x |-> 0, y |-> 100, width |-> 200, height |-> 40]]

\* the trees ui_describe_all can describe
Screens == {JList(<<>>), JList(<<JDict(SettingsNode)>>),
            JList(<<JDict(FieldNode), JDict(SettingsNode)>>)}

\* the text of a tool answer: whether it holds one of the idb markers,
\* whether it holds "Error", whether it is JSON and the value it encodes
PlainTexts ==
    {[marker |-> TRUE, Error |-> TRUE, json |-> FALSE, data |-> JScalar],
     [marker |-> TRUE, Error |-> FALSE, json |-> FALSE, data |-> JScalar],
     [marker |-> FALSE, Error |-> FALSE, json |-> FALSE, data |-> JScalar]}
Plain == [marker |-> FALSE, Error |-> FALSE, json |-> FALSE, data |-> JScalar]
TextsOver(screens) ==
    PlainTexts
    \cup {[marker |-> FALSE, Error |-> FALSE, json |-> TRUE, data |-> sc] : sc \in screens}
Texts == TextsOver(Screens)

\* the ways call_tool ends: its text, or the exception of _call
CallExceptions == {"No response", "MCP error", "MCP server is not running"}
CallOutcomesOver(screens) ==
    {[ok |-> TRUE, text |-> t, exc |-> None] : t \in TextsOver(screens)}
    \cup {[ok |-> FALSE, text |-> Plain, exc |-> x] : x \in CallExceptions}
CallOutcomes == CallOutcomesOver(Screens)

\* what the environment does during one step: the answer to ui_describe_all,
\* the answer to ui_tap / ui_swipe / ui_type, whether the step's own
\* screenshot and the bonus or diagnostic screenshot succeed
\* the components an action never consults are held fixed
Quiet == [ok |-> TRUE, text |-> Plain, exc |-> None]
EnvsOver(screens, action) ==
    [describe : IF action \in {"tap_label", "tap_id", "assert_text"}
                THEN CallOutcomesOver(screens) ELSE {Quiet},
     tool : IF action \in {"tap_label", "tap_id", "tap_xy", "swipe", "type"}
            THEN {o \in CallOutcomesOver(screens) : ~o.text.json} ELSE {Quiet},
     shot : IF action = "screenshot" THEN BOOLEAN ELSE {TRUE},
     extra : BOOLEAN]
Envs(action) == EnvsOver(Screens, action)

IDB_MISSING_MSG == "idb_companion not found"

\* lines 82-90
_is_idb_error(text) == text.marker /\ text.Error

\* the value of a call: exc is None or the exception raised; ops are the
\* operations dispatched on the way
Val(exc, value, calls) == [exc |-> exc, value |-> value, ops |-> calls]

\* a dispatched operation and its arguments
Call(op, args) == [op |-> op, args |-> args]

_normalize_frame_FlatOnly(frame) ==
    [x |-> Get(frame, "x", 0), y |-> Get(frame, "y", 0),
     width |-> Get(frame, "width", 0), height |-> Get(frame, "height", 0)]

\* lines 154-171; float() of a number is the number
_normalize_frame(frame) ==
    IF "x" \in DOMAIN frame
    THEN [x |-> Get(frame, "x", 0), y |-> Get(frame, "y", 0),
          width |-> Get(frame, "width", 0), height |-> Get(frame, "height", 0)]
    ELSE LET origin == Get(frame, "origin", JEmpty)
             size == Get(frame, "size", JEmpty)
         IN  [x |-> Get(origin, "x", 0), y |-> Get(origin, "y", 0),
              width |-> Get(size, "width", 0), height |-> Get(size, "height", 0)]

\* a or b, of two strings and of two dicts
OrStr(a, b) == IF a # <<>> THEN a ELSE b
OrDict(a, b) == IF DOMAIN a # {} THEN a ELSE b

Unknown == <<"Unknown">>

Extract_AnyFramed(d, elements) ==
    LET frame == OrDict(Get(d, "frame", JEmpty), Get(d, "rect", JEmpty))
    IN  IF DOMAIN frame # {}
        THEN Append(elements,
                    [label |-> OrStr(Get(d, "label", <<>>), Get(d, "accessibilityLabel", <<>>)),
                     identifier |-> OrStr(Get(d, "identifier", <<>>),
                                          Get(d, "accessibilityIdentifier", <<>>)),
                     element_type |-> Unknown, frame |-> _normalize_frame(frame),
                     value |-> <<>>])
        ELSE elements

\* lines 132-145: the element of a dict node, if it yields one
Extract(d, elements) ==
    LET frame == OrDict(Get(d, "frame", JEmpty), Get(d, "rect", JEmpty))
        label == OrStr(Get(d, "label", <<>>), Get(d, "accessibilityLabel", <<>>))
        identifier == OrStr(Get(d, "identifier", <<>>),
                            Get(d, "accessibilityIdentifier", <<>>))
        element_type == OrStr(OrStr(Get(d, "elementType", <<>>), Get(d, "type", <<>>)),
                              Unknown)
        value == Get(d, "value", <<>>)
    IN  IF DOMAIN frame # {} /\ (label # <<>> \/ identifier # <<>>)
        THEN Append(elements, [label |-> label, identifier |-> identifier,
                               element_type |-> element_type,
                               frame |-> _normalize_frame(frame), value |-> value])
        ELSE elements

RECURSIVE _parse_elements(_, _)
RECURSIVE ParseItems(_, _, _)

\* lines 128-129: for item in data, from item k on
ParseItems(items, k, elements) ==
    IF k > Len(items) THEN elements
    ELSE ParseItems(items, k + 1, _parse_elements(items[k], elements))

\* lines 122-151
_parse_elements(data, elements) ==
    CASE data.kind = "list" -> ParseItems(data.items, 1, elements)
      [] data.kind = "dict" ->
           LET d == data.fields
               own == Extract(d, elements)
               c1 == IF "children" \in DOMAIN d THEN _parse_elements(d.children, own) ELSE own
               c2 == IF "elements" \in DOMAIN d THEN _parse_elements(d.elements, c1) ELSE c1
               c3 == IF "subtree" \in DOMAIN d THEN _parse_elements(d.subtree, c2) ELSE c2
           IN  c3
      [] OTHER -> elements

describe_screen_Unguarded(e) ==
    LET o == e.describe
        calls == <<Call("ui_describe_all", <<>>)>>
    IN  IF ~o.ok THEN Val(o.exc, <<>>, calls)
        ELSE IF ~o.text.json THEN Val("JSONDecodeError", <<>>, calls)
        ELSE Val(None, _parse_elements(o.text.data, <<>>), calls)

\* lines 93-119
describe_screen(e) ==
    LET o == e.describe
        calls == <<Call("ui_describe_all", <<>>)>>
    IN  IF ~o.ok THEN Val(o.exc, <<>>, calls)
        ELSE IF _is_idb_error(o.text) THEN Val(None, <<>>, calls)
        ELSE IF ~o.text.json THEN Val(None, <<>>, calls)
        ELSE Val(None, _parse_elements(o.text.data, <<>>), calls)

Min(S) == CHOOSE x \in S : \A y \in S : x <= y

LabelMatches_AlwaysFuzzy(el_label, label, fuzzy) == StrIn(lower(label), lower(el_label))

\* lines 190-195: the label of an element against the label asked for
LabelMatches(el_label, label, fuzzy) ==
    IF fuzzy THEN StrIn(lower(label), lower(el_label)) ELSE el_label = label

Matches_Any(el, label, identifier, element_type, fuzzy) ==
    \/ label # <<>> /\ LabelMatches(el.label, label, fuzzy)
    \/ identifier # <<>> /\ el.identifier = identifier
    \/ element_type # <<>> /\ lower(el.element_type) = lower(element_type)

\* lines 189-201: the criteria of find_element on one element
Matches(el, label, identifier, element_type, fuzzy) ==
    /\ label # <<>> => LabelMatches(el.label, label, fuzzy)
    /\ identifier # <<>> => el.identifier = identifier
    /\ element_type # <<>> => lower(el.element_type) = lower(element_type)

Max(S) == CHOOSE x \in S : \A y \in S : y <= x

FirstHit_Last(hits) == Max(hits)

\* lines 188 and 202: the loop returns at the first element that passes
FirstHit(hits) == Min(hits)

\* lines 188-204: the loop over what describe_screen came to, d
FindAmong(d, label, identifier, element_type, fuzzy) ==
    LET elements == d.value
        hits == {i \in 1..Len(elements) :
                    Matches(elements[i], label, identifier, element_type, fuzzy)}
    IN  IF d.exc # None THEN d
        ELSE IF hits = {} THEN Val(None, <<>>, d.ops)
        ELSE Val(None, <<elements[FirstHit(hits)]>>, d.ops)

\* lines 174-204; the value is <<el>> for an element and <<>> for None
find_element(label, identifier, element_type, fuzzy, e) ==
    FindAmong(describe_screen(e), label, identifier, element_type, fuzzy)

\* lines 39-45
center_x(el) == el.frame.x + el.frame.width \div 2
center_y(el) == el.frame.y + el.frame.height \div 2

\* a primitive that calls one tool and raises on an idb answer:
\* lines 211-218, 268-281, 286-292
ToolCall(name, args, e) ==
    IF ~e.tool.ok THEN Val(e.tool.exc, <<>>, <<Call(name, args)>>)
    ELSE IF _is_idb_error(e.tool.text) THEN Val(IDB_MISSING_MSG, <<>>, <<Call(name, args)>>)
    ELSE Val(None, <<>>, <<Call(name, args)>>)

\* lines 209-218
tap_xy(x, y, e) == ToolCall("ui_tap", <<x, y>>, e)

\* lines 233-236: what find_element came to, f, is tapped or missing
TapFound(f, e) ==
    IF f.exc # None THEN f
    ELSE IF f.value = <<>> THEN Val("Element not found", <<>>, f.ops)
    ELSE LET el == f.value[1]
             t == tap_xy(center_x(el), center_y(el), e)
         IN  Val(t.exc, f.value, f.ops \o t.ops)

\* lines 221-236
tap_element(label, identifier, fuzzy, e) ==
    TapFound(find_element(label, identifier, <<>>, fuzzy, e), e)

Directions == {<<"u", "p">>, <<"d", "o", "w", "n">>,
               <<"l", "e", "f", "t">>, <<"r", "i", "g", "h", "t">>}

\* lines 239-281
swipe(direction, e) ==
    IF lower(direction) \notin Directions
    THEN Val("Unknown swipe direction", <<>>, <<>>)
    ELSE ToolCall("ui_swipe", <<>>, e)

\* lines 284-292
type_text(text, e) == ToolCall("ui_type", <<>>, e)

\* lines 295-297
wait(seconds) == Val(None, <<>>, <<Call("sleep", <<>>)>>)

\* lines 302-320; the value is the name the file is saved under, and the
\* operation tells the file of a failed step (FAIL_...) from the others
capture_step_screenshot(step_name, ok) ==
    LET op == IF step_name # <<>> /\ step_name[1] = "FAIL_"
              THEN "screenshot FAIL_" ELSE "screenshot"
    IN  IF ok THEN Val(None, step_name, <<Call(op, <<>>)>>)
        ELSE Val("simctl screenshot failed", None, <<Call(op, <<>>)>>)

(* ------------------------------ run_script ------------------------------ *)

\* the step dicts a script is made of (lines 325-334), with and without
\* their fields
StepSet ==
    {[action |-> "tap_label", label |-> <<"s", "e">>],
     [action |-> "tap_label", label |-> <<"s", "e">>, fuzzy |-> FALSE],
     [action |-> "tap_label"],
     [action |-> "tap_id", identifier |-> <<"b", "1">>],
     [action |-> "tap_xy", x |-> 10, y |-> 20],
     [action |-> "swipe", direction |-> <<"U", "p">>],
     [action |-> "type", text |-> <<"h", "i">>],
     [action |-> "wait", seconds |-> 1],
     [action |-> "screenshot", name |-> <<"h", "o", "m", "e">>],
     [action |-> "assert_text", text |-> <<"S", "e", "t">>],
     [action |-> "bogus"]}

Scripts == UNION {[1..n -> StepSet] : n \in 0..MaxSteps}

\* str(KeyError(key))
KeyError(key) == "KeyError"

\* what the try block of one step comes to: exc is None or the exception
\* raised, ops the operations dispatched, detail and path what it had
\* assigned to step_result by then
Done(v, detail, path) ==
    [exc |-> v.exc, ops |-> v.ops,
     detail |-> IF v.exc = None THEN detail ELSE "", path |-> path]

\* line 362
step_label(step, i, action) ==
    IF Get(step, "name", <<>>) # <<>> THEN step.name
    ELSE <<"step_", ToString(i + 1), "_", action>>

Candidates_Labels(elements) ==
    {lower(elements[j].label) : j \in 1..Len(elements)}

\* lines 412-414: labels + values, in lower case
Candidates(elements) ==
    {lower(elements[j].label) : j \in 1..Len(elements)}
    \cup {lower(elements[j].value) : j \in 1..Len(elements)}

\* lines 410-417: the expected text against what describe_screen came to, d
AssertOn(d, expected) ==
    LET texts == Candidates(d.value)
        found == \E t \in texts : StrIn(lower(expected), t)
    IN  IF d.exc # None THEN Done(d, "", <<>>)
        ELSE IF ~found
        THEN Done(Val("Text not found on screen", <<>>, d.ops), "", <<>>)
        ELSE Done(d, "Found text", <<>>)

\* lines 366-420
Execute(step, i, action, e) ==
    CASE action = "tap_label" ->
           IF "label" \notin DOMAIN step
           THEN Done(Val(KeyError("label"), <<>>, <<>>), "", <<>>)
           ELSE Done(tap_element(step.label, <<>>, Get(step, "fuzzy", TRUE), e),
                     "Tapped", <<>>)
      [] action = "tap_id" ->
           IF "identifier" \notin DOMAIN step
           THEN Done(Val(KeyError("identifier"), <<>>, <<>>), "", <<>>)
           ELSE Done(tap_element(<<>>, step.identifier, TRUE, e), "Tapped id", <<>>)
      [] action = "tap_xy" ->
           IF {"x", "y"} \subseteq DOMAIN step
           THEN Done(tap_xy(step.x, step.y, e), "Tapped", <<>>)
           ELSE Done(Val(KeyError("x"), <<>>, <<>>), "", <<>>)
      [] action = "swipe" ->
           IF "direction" \notin DOMAIN step
           THEN Done(Val(KeyError("direction"), <<>>, <<>>), "", <<>>)
           ELSE Done(swipe(step.direction, e), "Swiped", <<>>)
      [] action = "type" ->
           IF "text" \notin DOMAIN step
           THEN Done(Val(KeyError("text"), <<>>, <<>>), "", <<>>)
           ELSE Done(type_text(step.text, e), "Typed", <<>>)
      [] action = "wait" ->
           Done(wait(Get(step, "seconds", 1)), "Waited", <<>>)
      [] action = "screenshot" ->
           LET snap_name == Get(step, "name", step_label(step, i, action))
               c == capture_step_screenshot(snap_name, e.shot)
           IN  Done(c, "Screenshot", IF c.exc = None THEN c.value ELSE <<>>)
      [] action = "assert_text" ->
           IF "text" \notin DOMAIN step
           THEN Done(Val(KeyError("text"), <<>>, <<>>), "", <<>>)
           ELSE AssertOn(describe_screen(e), step.text)
      [] OTHER -> Done(Val("Unknown action", <<>>, <<>>), "", <<>>)

StepResult_ZeroBased(i, action) ==
    [action |-> <<i, action>>, success |-> FALSE, screenshot_path |-> <<>>,
     error |-> None, detail |-> ""]

\* line 363: StepResult(action=f"{i+1}. {action}"), i counted from 0
StepResult(i, action) ==
    [action |-> <<i + 1, action>>, success |-> FALSE, screenshot_path |-> <<>>,
     error |-> None, detail |-> ""]

\* lines 422-430: the try block came to its end
Succeeded(sr, x, bonus) ==
    [sr EXCEPT !.detail = x.detail,
               !.success = TRUE,
               !.screenshot_path = IF bonus.exc = None THEN bonus.value ELSE x.path]

Failed_ErrorUnset(sr, exc, diag) ==
    [sr EXCEPT !.success = FALSE,
               !.screenshot_path = IF diag.exc = None THEN diag.value ELSE @]

Diagnose_Masking(sr, diag) ==
    IF diag.exc = None THEN [sr EXCEPT !.screenshot_path = diag.value]
    ELSE [sr EXCEPT !.error = diag.exc]

\* lines 436-440: the screenshot of the failed step; its exception is
\* dropped
Diagnose(sr, diag) ==
    IF diag.exc = None THEN [sr EXCEPT !.screenshot_path = diag.value]
    ELSE sr

\* lines 432-440: the try block raised exc
Failed(sr, exc, diag) ==
    Diagnose([sr EXCEPT !.success = FALSE, !.error = exc], diag)

\* the class of the exception with this message (lines 88, 111, 120 of
\* mcp_client.py; 218, 234, 266, 416, 420 of xcuitest.py; a missing key)
ExceptionClass(exc) ==
    CASE exc \in {"Element not found", "Unknown swipe direction", "Unknown action",
                  "ValueError"}
           -> "ValueError"
      [] exc = "KeyError" -> "KeyError"
      [] exc = "Text not found on screen" -> "AssertionError"
      [] exc = "No response" -> "TimeoutError"
      [] exc = "AttributeError" -> "AttributeError"
      [] OTHER -> "RuntimeError"

\* the subclasses of Exception among them
Exception == {"ValueError", "KeyError", "AssertionError", "TimeoutError", "RuntimeError",
              "AttributeError"}

Handles_RuntimeError(exc) == ExceptionClass(exc) = "RuntimeError"

\* line 432: except Exception
Handles(exc) == ExceptionClass(exc) \in Exception

TakesBonus_EveryStep(every, action) == every

\* line 425
TakesBonus(every, action) == every /\ action # "screenshot"

Breaks_Never(sr) == FALSE

\* lines 445-446
Breaks(sr) == ~sr.success

passed_Any(rs) == rs = <<>> \/ \E j \in 1..Len(rs) : rs[j].success

\* lines 64-66
passed(rs) == \A j \in 1..Len(rs) : rs[j].success

\* lines 68-70
failed_steps(rs) == SelectSeq(rs, LAMBDA r : ~r.success)

Logged(i, calls) ==
    [j \in 1..Len(calls) |-> [step |-> i + 1, op |-> calls[j].op, args |-> calls[j].args]]

\* lines 336-358: run_script is called; get_booted returns or raises
RunScript ==
    /\ spc = "idle"
    /\ \E ok \in BOOLEAN : spc' = IF ok THEN "loop" ELSE "raised"
    /\ UNCHANGED <<clientVars, sessionVars, probeVars, steps, screenshot_every_step, idx, results, ops, raised, thrown>>

\* lines 422-440: the body of the loop for step number i + 1 in the
\* environment e once its try block has come to x, up to the append: the
\* StepResult it builds, the operations it dispatches and the exception
\* the try block raised
Outcome(step, i, action, x, e) ==
    LET label == step_label(step, i, action)
        skip == Val("skipped", <<>>, <<>>)
        bonus == IF TakesBonus(screenshot_every_step, action)
                 THEN capture_step_screenshot(label, e.extra) ELSE skip
        diag == capture_step_screenshot(<<"FAIL_">> \o label, e.extra)
        caught == x.exc # None /\ Handles(x.exc)
    IN  [step_result |-> IF x.exc = None
                         THEN Succeeded(StepResult(i, action), x, bonus)
                         ELSE Failed(StepResult(i, action), x.exc, diag),
         calls |-> x.ops \o (IF x.exc = None THEN bonus.ops
                             ELSE IF caught THEN diag.ops ELSE <<>>),
         exc |-> x.exc,
         escapes |-> x.exc # None /\ ~caught,
         swallowed |-> IF x.exc = None
                       THEN IF bonus.ops # <<>> /\ bonus.exc # None
                            THEN <<[step |-> i + 1, at |-> "bonus", exc |-> bonus.exc]>>
                            ELSE <<>>
                       ELSE IF caught /\ diag.exc # None
                            THEN <<[step |-> i + 1, at |-> "diagnostic", exc |-> diag.exc]>>
                            ELSE <<>>]

\* lines 361-440: the action of the step (line 361), its try block and
\* what follows from it
Body(step, i, e) ==
    Outcome(step, i, Get(step, "action", "unknown"),
            Execute(step, i, Get(step, "action", "unknown"), e), e)

\* lines 442-446 after the body b of step idx + 1: the append and the break;
\* a break goes on to the return of line 448, and an exception no except
\* clause handles leaves run_script
Iteration(b) ==
    /\ results' = IF b.escapes THEN results ELSE Append(results, b.step_result)
    /\ ops' = ops \o Logged(idx, b.calls)
    /\ raised' = IF b.exc = None THEN raised ELSE raised \cup {idx + 1}
    /\ thrown' = thrown
                   \o (IF b.exc = None THEN <<>>
                       ELSE <<[step |-> idx + 1, at |-> "step", exc |-> b.exc]>>)
                   \o b.swallowed
    /\ spc' = IF b.escapes THEN "raised"
              ELSE IF Breaks(b.step_result) THEN "returned" ELSE "loop"
    /\ idx' = idx + 1

\* lines 360-446: one iteration of the for loop, in whichever environment
Step ==
    /\ spc = "loop"
    /\ idx < Len(steps)
    /\ \E b \in {Body(steps[idx + 1], idx, e) :
                    e \in Envs(Get(steps[idx + 1], "action", "unknown"))} :
          Iteration(b)
    /\ UNCHANGED <<clientVars, sessionVars, probeVars, steps, screenshot_every_step>>

\* line 448, the loop having run through
Return ==
    /\ spc = "loop"
    /\ idx = Len(steps)
    /\ spc' = "returned"
    /\ UNCHANGED <<clientVars, sessionVars, probeVars, steps, screenshot_every_step, idx, results, ops, raised, thrown>>

InitScript ==
    /\ proc = "none"
    /\ next_id = 1
    /\ response_queue = <<>>
    /\ stdin = <<>>
    /\ call = [t \in Callers |-> IdleCall]
    /\ outcome = [t \in Callers |-> NoOutcome]
    /\ started = <<>>
    /\ nlines = 0
    /\ nenq = 0
    /\ delivered = {}
    /\ steps \in Scripts
    /\ screenshot_every_step \in BOOLEAN
    /\ spc = "idle"
    /\ idx = 0
    /\ results = <<>>
    /\ ops = <<>>
    /\ raised = {}
    /\ thrown = <<>>
    /\ seen = <<>>
    /\ query = NoQuery
    /\ answer = NoAnswer
    /\ _client = 0
    /\ popens = 0
    /\ hs = NoHandshake
    /\ strays = {}
    /\ rlog = <<>>
    /\ reader = "none"
    /\ dpc = "idle"
    /\ dlog = <<>>

NextScript ==
    \/ RunScript
    \/ Step
    \/ Return

SpecScript == InitScript /\ [][NextScript]_vars

(* ------------------- one step and what it was answered ------------------ *)

\* a second button, before Settings in the tree, with the same identifier
SetupNode == [label |-> <<"S", "e", "t", "U">>, identifier |-> <<"b", "1">>,
              elementType |-> <<"B">>,
              frame |-> [x |-> 200, y |-> 20, width |-> 60, height |-> 40]]

\* a window that yields no element itself, with the field and the button
\* under it
WindowNode == [type |-> <<"W">>,
               frame |-> [x |-> 0, y |-> 0, width |-> 400, height |-> 800],
               children |-> JList(<<JDict(FieldNode), JDict(SettingsNode)>>)]

ProbeScreens ==
    Screens \cup {JList(<<JDict(FieldNode)>>),
                  JList(<<JDict(SetupNode), JDict(SettingsNode)>>),
                  JList(<<JDict(WindowNode)>>)}

ProbeSteps ==
    {[action |-> "tap_label", label |-> <<"s", "e", "t">>],
     [action |-> "tap_label", label |-> <<"S", "e", "t">>, fuzzy |-> FALSE],
     [action |-> "tap_label", label |-> <<"s", "e", "t">>, fuzzy |-> FALSE],
     [action |-> "tap_id", identifier |-> <<"b", "1">>],
     [action |-> "tap_id", identifier |-> <<"B", "1">>],
     [action |-> "tap_xy", x |-> 10, y |-> 20],
     [action |-> "swipe", direction |-> <<"U", "p">>],
     [action |-> "type", text |-> <<"h", "i">>],
     [action |-> "assert_text", text |-> <<"S", "E", "T">>],
     [action |-> "assert_text", text |-> <<"t", "u">>],
     [action |-> "assert_text", text |-> <<"f", "1">>]}

\* wait, tap_label "Settings", screenshot
Scenario ==
    <<[action |-> "wait", seconds |-> 1],
      [action |-> "tap_label", label |-> <<"S", "e", "t", "t", "i", "n", "g", "s">>],
      [action |-> "screenshot", name |-> <<"h", "o", "m", "e">>]>>

ProbeScripts == {<<st>> : st \in ProbeSteps} \cup {Scenario}

\* lines 360-446: one iteration of the for loop, the answers of the
\* environment being kept
StepSeen ==
    /\ spc = "loop"
    /\ idx < Len(steps)
    /\ \E e \in EnvsOver(ProbeScreens, Get(steps[idx + 1], "action", "unknown")) :
          /\ Iteration(Body(steps[idx + 1], idx, e))
          /\ seen' = Append(seen, e)
    /\ UNCHANGED <<clientVars, sessionVars, query, answer, steps, screenshot_every_step>>

InitStep ==
    /\ proc = "none"
    /\ next_id = 1
    /\ response_queue = <<>>
    /\ stdin = <<>>
    /\ call = [t \in Callers |-> IdleCall]
    /\ outcome = [t \in Callers |-> NoOutcome]
    /\ started = <<>>
    /\ nlines = 0
    /\ nenq = 0
    /\ delivered = {}
    /\ steps \in ProbeScripts
    /\ screenshot_every_step \in BOOLEAN
    /\ spc = "idle"
    /\ idx = 0
    /\ results = <<>>
    /\ ops = <<>>
    /\ raised = {}
    /\ thrown = <<>>
    /\ seen = <<>>
    /\ query = NoQuery
    /\ answer = NoAnswer
    /\ _client = 0
    /\ popens = 0
    /\ hs = NoHandshake
    /\ strays = {}
    /\ rlog = <<>>
    /\ reader = "none"
    /\ dpc = "idle"
    /\ dlog = <<>>

NextStep ==
    \/ RunScript
    \/ StepSeen
    \/ Return

SpecStep == InitStep /\ [][NextStep]_vars

(* ------------------- _parse_elements and find_element ------------------- *)

SettingsLabel == <<"S", "e", "t", "t", "i", "n", "g", "s">>

\* the Settings cell, with an empty frame under "frame" and its frame
\* under "rect" as origin and size
CellNode == [accessibilityLabel |-> SettingsLabel,
             accessibilityIdentifier |-> <<"b", "2">>,
             type |-> <<"b">>,
             frame |-> JEmpty,
             rect |-> [origin |-> [x |-> 0, y |-> 200], size |-> [width |-> 400, height |-> 40]]]

\* a labelled group without a frame: a list with a scalar in it under
\* "children", one node under "subtree"
GroupNode == [label |-> <<"t", "u">>,
              children |-> JList(<<JDict(SetupNode), JScalar>>),
              subtree |-> JDict(FieldNode)]

\* a panel that yields an element, with the group under "elements"
PanelNode == [label |-> <<"S", "e", "t">>, identifier |-> <<"b", "1">>,
              elementType |-> <<"T">>,
              frame |-> [x |-> 0, y |-> 300, width |-> 400, height |-> 300],
              elements |-> JList(<<JDict(GroupNode)>>)]

\* a node whose frame is the empty dict
HiddenNode == [label |-> <<"w">>, identifier |-> <<"b", "1">>, frame |-> JEmpty]

\* a shelf whose frame is nested, holding the cell (nested) and the
\* Settings button (flat) one level down
ShelfNode == [label |-> <<"w">>, identifier |-> <<"f", "1">>,
              frame |-> [origin |-> [x |-> 5, y |-> 7], size |-> [width |-> 300, height |-> 90]],
              children |-> JList(<<JDict(CellNode), JDict(SettingsNode)>>)]

FindTrees ==
    ProbeScreens
    \cup {JList(<<JDict(CellNode), JDict(SettingsNode)>>),
          JList(<<JDict(PanelNode), JDict(WindowNode)>>),
          JDict(GroupNode),
          JList(<<JDict(HiddenNode), JDict(SettingsNode), JDict(CellNode)>>),
          JList(<<JDict(SetupNode), JDict(ShelfNode)>>)}

\* the arguments of find_element; <<>> is an argument left out
FindLabels == {<<>>, <<"s", "e", "t">>, <<"S", "e", "t">>, SettingsLabel}
FindIdentifiers == {<<>>, <<"b", "1">>, <<"B", "1">>}
FindTypes == {<<>>, <<"B">>, <<"b">>, <<"T">>}

Queries ==
    [called : {FALSE}, tree : FindTrees, label : FindLabels, identifier : FindIdentifiers,
     element_type : FindTypes, fuzzy : BOOLEAN]

\* ui_describe_all answers the JSON text of this tree
Describing(tree) ==
    [describe |-> [ok |-> TRUE, exc |-> None,
                   text |-> [marker |-> FALSE, Error |-> FALSE, json |-> TRUE, data |-> tree]],
     tool |-> Quiet, shot |-> TRUE, extra |-> FALSE]

\* _parse_elements is applied to the tree
Parse ==
    /\ answer.state = "none"
    /\ answer' = [state |-> "parsed", elements |-> _parse_elements(query.tree, <<>>),
                  found |-> <<>>]
    /\ UNCHANGED <<clientVars, sessionVars, steps, screenshot_every_step, spc, idx, results,
                   ops, raised, thrown, seen, query>>

\* find_element is called with the arguments of the query on a screen that
\* is described by the tree
Find ==
    /\ answer.state = "parsed"
    /\ answer' = [answer EXCEPT
                    !.state = "found",
                    !.found = find_element(query.label, query.identifier, query.element_type,
                                           query.fuzzy, Describing(query.tree)).value]
    /\ query' = [query EXCEPT !.called = TRUE]
    /\ UNCHANGED <<clientVars, sessionVars, steps, screenshot_every_step, spc, idx, results,
                   ops, raised, thrown, seen>>

InitFind ==
    /\ proc = "none"
    /\ next_id = 1
    /\ response_queue = <<>>
    /\ stdin = <<>>
    /\ call = [t \in Callers |-> IdleCall]
    /\ outcome = [t \in Callers |-> NoOutcome]
    /\ started = <<>>
    /\ nlines = 0
    /\ nenq = 0
    /\ delivered = {}
    /\ steps = <<>>
    /\ screenshot_every_step = FALSE
    /\ spc = "idle"
    /\ idx = 0
    /\ results = <<>>
    /\ ops = <<>>
    /\ raised = {}
    /\ thrown = <<>>
    /\ seen = <<>>
    /\ query \in Queries
    /\ answer = NoAnswer
    /\ _client = 0
    /\ popens = 0
    /\ hs = NoHandshake
    /\ strays = {}
    /\ rlog = <<>>
    /\ reader = "none"
    /\ dpc = "idle"
    /\ dlog = <<>>

NextFind ==
    \/ Parse
    \/ Find

SpecFind == InitFind /\ [][NextFind]_vars

(* ----------------------- properties of run_script ----------------------- *)

\* C2: while run_script executes, result.steps never has more entries than
\* the input step list, and no entry follows an entry with success = false:
\* only the last entry can be a failed one.
C2_StopsAtFailure ==
    /\ Len(results) <= Len(steps)
    /\ \A j \in 1..(Len(results) - 1) : results[j].success

\* run_script returned early: a failed entry is last and steps remain
C2_Witness ==
    /\ spc = "returned"
    /\ Len(results) >= 2
    /\ Len(results) < Len(steps)
    /\ ~results[Len(results)].success

\* C3: when step k is the first step whose execution raises, run_script
\* returns exactly k entries, entries 1..k-1 with success = true, entry k
\* with success = false and a non-empty error message, and no operation
\* of a step after k was dispatched.
C3_FirstFailure ==
    (spc = "returned" /\ raised # {}) =>
        LET k == Min(raised)
        IN  /\ Len(results) = k
            /\ \A j \in 1..(k - 1) : results[j].success
            /\ ~results[k].success
            /\ results[k].error \notin {None, ""}
            /\ \A n \in 1..Len(ops) : ops[n].step <= k

\* a step after a successful one raised after dispatching an operation,
\* steps remain, and run_script returned
C3_Witness ==
    /\ spc = "returned"
    /\ raised # {}
    /\ Min(raised) >= 2
    /\ Min(raised) < Len(steps)
    /\ \E n \in 1..Len(ops) : ops[n].step = Min(raised) /\ ops[n].op = "ui_tap"

\* C4: when no step's execution raises, the returned ScriptResult has
\* passed = true and one entry per input step, entry i being the one of
\* input step i.
C4_AllPass ==
    (spc = "returned" /\ raised = {}) =>
        /\ passed(results)
        /\ failed_steps(results) = <<>>
        /\ Len(results) = Len(steps)
        /\ \A j \in 1..Len(results) :
              /\ results[j].action = <<j, Get(steps[j], "action", "unknown")>>
              /\ results[j].success
              /\ results[j].error = None

\* a script of the longest length ran to its end without a raise
C4_Witness ==
    /\ spc = "returned"
    /\ raised = {}
    /\ Len(steps) = MaxSteps
    /\ \E j \in 1..Len(steps) : steps[j].action = "tap_label"

\* the exception the try block of step j raised, if any
StepExc(j) == {thrown[n].exc : n \in {m \in 1..Len(thrown) :
                                        thrown[m].step = j /\ thrown[m].at = "step"}}

\* the messages of the failures a step can raise
StepFailures ==
    {"Element not found", "No response", "MCP error", "MCP server is not running",
     "idb_companion not found", "Text not found on screen", "Unknown action",
     "KeyError", "Unknown swipe direction", "simctl screenshot failed"}

\* C18: every failure raised while a step executes is caught by run_script
\* and becomes a failed StepResult that carries its message and ends the
\* script: every iteration of the loop appends its entry, and none leaves
\* run_script by an exception.
C18_FailuresCaught ==
    /\ Len(results) = idx
    /\ spc = "raised" => idx = 0
    /\ \A n \in 1..Len(thrown) : thrown[n].at = "step" =>
          LET j == thrown[n].step
          IN  /\ j = Len(results)
              /\ ~results[j].success
              /\ results[j].error = thrown[n].exc
              /\ results[j].error \in StepFailures
              /\ spc = "returned"

\* the second step timed out, steps remain, and run_script returned with
\* the failed entry last
C18_Witness ==
    /\ spc = "returned"
    /\ Len(results) = 2
    /\ Len(steps) = 3
    /\ ~results[2].success
    /\ results[2].error = "No response"
    /\ StepExc(2) = {"No response"}

\* the diagnostic screenshot of step j raised
DiagnosticFailed(j) ==
    \E n \in 1..Len(thrown) : thrown[n].step = j /\ thrown[n].at = "diagnostic"

\* C19: when a step fails and the screenshot taken of the failure fails
\* too, the StepResult of the step is appended with success = false, the
\* message of the step's own failure and no screenshot path, and the script
\* ends at that step.
C19_DiagnosticSwallowed ==
    \A j \in 1..MaxSteps : DiagnosticFailed(j) =>
        /\ Len(results) = j
        /\ ~results[j].success
        /\ {results[j].error} = StepExc(j)
        /\ results[j].screenshot_path = <<>>
        /\ spc = "returned"

\* a tap on a missing element failed at step 2 of 3 and so did its
\* diagnostic screenshot
C19_Witness ==
    /\ DiagnosticFailed(2)
    /\ Len(steps) = 3
    /\ results[2].error = "Element not found"
    /\ \E n \in 1..Len(ops) : ops[n].step = 2 /\ ops[n].op = "screenshot FAIL_"

\* the screenshots of step j that are not the one of a failure
Shots(j) == {n \in 1..Len(ops) : ops[n].step = j /\ ops[n].op = "screenshot"}

\* the bonus screenshots of step j: those beyond the capture a screenshot
\* step makes itself
BonusShots(j) ==
    Cardinality(Shots(j)) - (IF Get(steps[j], "action", "unknown") = "screenshot" THEN 1 ELSE 0)

BonusFailed(j) ==
    \E n \in 1..Len(thrown) : thrown[n].step = j /\ thrown[n].at = "bonus"

AfterScripts ==
    {<<Scenario[2]>>,
     <<[action |-> "assert_text", text |-> <<"t", "u">>]>>,
     <<[action |-> "assert_text", text |-> <<"S", "e", "t">>]>>,
     <<[action |-> "assert_text", text |-> <<"S", "e", "t">>], Scenario[2]>>}

\* str(exc) of what _call raised
Message(kind) ==
    CASE kind = "Timeout" -> "No response"
      [] kind = "RemoteError" -> "MCP error"
      [] kind = "TransportUnavailable" -> "MCP server is not running"
      [] OTHER -> kind

\* what call_tool hands to describe_screen when _call ended as o did
Answers(o) ==
    IF o.kind = "result" THEN {c \in CallOutcomes : c.ok}
    ELSE {[ok |-> FALSE, text |-> Plain, exc |-> Message(o.kind)]}

ProcessAfter_StopOnFailure(p, sr) == IF sr.success THEN p ELSE "exited"

\* lines 432-448: the except clause, the break and the return call
\* nothing of the client, so the server process is what it was
ProcessAfter(p, sr) == p

\* the steps whose first operation is describe_screen (lines 368-373 and
\* 410)
Describes(step) == Get(step, "action", "unknown") \in {"tap_label", "tap_id", "assert_text"}

\* lines 101-106: describe_screen of step idx + 1 gets the client and
\* enters call_tool
StepCalls ==
    /\ spc = "loop"
    /\ idx < Len(steps)
    /\ Describes(steps[idx + 1])
    /\ ~IsNone(_client)
    /\ Enter(Main)
    /\ spc' = "describe"
    /\ UNCHANGED <<sessionVars, probeVars, steps, screenshot_every_step, idx, results, ops,
                   raised, thrown, proc, next_id, response_queue, stdin, nlines, nenq,
                   delivered>>

\* lines 106-446: call_tool has returned or raised, and the iteration runs
\* to its end
StepEnds ==
    /\ spc = "describe"
    /\ call[Main].pc = "idle"
    /\ \E d \in Answers(outcome[Main]), x \in BOOLEAN :
          LET b == Body(steps[idx + 1], idx,
                        [describe |-> d, tool |-> Quiet, shot |-> TRUE, extra |-> x])
          IN  /\ Iteration(b)
              /\ proc' = ProcessAfter(proc, b.step_result)
    /\ UNCHANGED <<sessionVars, probeVars, steps, screenshot_every_step, next_id,
                   response_queue, stdin, call, outcome, started, nlines, nenq, delivered>>

\* a capability call on the client once run_script has returned
Later ==
    /\ spc = "returned"
    /\ Operation(Main)

\* connect has returned the result of the handshake; the histories start
\* here
InitAfter ==
    /\ proc = "running"
    /\ next_id = 2
    /\ response_queue = <<>>
    /\ stdin = <<1>>
    /\ call = [t \in Callers |-> IdleCall]
    /\ outcome = [t \in Callers |-> NoOutcome]
    /\ started = <<>>
    /\ nlines = 0
    /\ nenq = 0
    /\ delivered = {}
    /\ steps \in AfterScripts
    /\ screenshot_every_step = FALSE
    /\ spc = "idle"
    /\ idx = 0
    /\ results = <<>>
    /\ ops = <<>>
    /\ raised = {}
    /\ thrown = <<>>
    /\ seen = <<>>
    /\ query = NoQuery
    /\ answer = NoAnswer
    /\ _client = 1
    /\ popens = 1
    /\ hs = [id |-> 1, state |-> "result"]
    /\ strays = {}
    /\ rlog = <<>>
    /\ reader = "running"
    /\ dpc = "idle"
    /\ dlog = <<>>

NextAfter ==
    \/ RunScript
    \/ StepCalls
    \/ L95_load(Main)
    \/ L95_store(Main)
    \/ L96_send(Main)
    \/ L105_get(Main)
    \/ L115_empty(Main)
    \/ L108_putback(Main)
    \/ L118_putback(Main)
    \/ ReadLine
    \/ StepEnds
    \/ Return
    \/ Later

SpecAfter == InitAfter /\ [][NextAfter]_vars

\* the same, with a server that may exit at any moment
NextOutage ==
    \/ NextAfter
    \/ ServerExit

SpecOutage == InitAfter /\ [][NextOutage]_vars

(* ------------------------------ screenshots ----------------------------- *)

MaxShots == 1             \* invocations of MCPClient.screenshot over a run

\* a screenshot step alone, one after a describing step, and a describing
\* step that fails
ShotScripts ==
    {<<Scenario[3]>>,
     <<[action |-> "assert_text", text |-> <<"S", "e", "t">>], Scenario[3]>>,
     <<Scenario[2]>>}

Captured_OverProtocol(frames, r) == Append(frames, r)

\* mcp_client.py lines 142-146: subprocess.run of xcrun simctl; the frames
\* on the server's input are what they were
Captured(frames, r) == frames

\* mcp_client.py lines 139-149, MCPClient.screenshot, from the thread of
\* the script once run_script has returned: simctl succeeds or fails
Screenshot ==
    /\ ~IsNone(_client)
    /\ call[Main].pc = "idle"
    /\ spc = "returned"
    /\ Len(seen) < MaxShots
    /\ \E ok \in BOOLEAN :
          seen' = Append(seen, [op |-> "screenshot",
                                exc |-> IF ok THEN None ELSE "simctl screenshot failed"])
    /\ stdin' = Captured(stdin, next_id)
    /\ UNCHANGED <<sessionVars, scriptVarsButSeen, query, answer, proc, next_id,
                   response_queue, call, outcome, started, nlines, nenq, delivered>>

\* lines 360-446 for a wait or a screenshot step: the iteration calls no
\* tool
StepLocal ==
    /\ spc = "loop"
    /\ idx < Len(steps)
    /\ Get(steps[idx + 1], "action", "unknown") \in {"wait", "screenshot"}
    /\ \E e \in Envs(Get(steps[idx + 1], "action", "unknown")) :
          Iteration(Body(steps[idx + 1], idx, e))
    /\ UNCHANGED <<clientVars, sessionVars, probeVars, steps, screenshot_every_step>>

InitShot ==
    /\ proc = "running"
    /\ next_id = 2
    /\ response_queue = <<>>
    /\ stdin = <<1>>
    /\ call = [t \in Callers |-> IdleCall]
    /\ outcome = [t \in Callers |-> NoOutcome]
    /\ started = <<>>
    /\ nlines = 0
    /\ nenq = 0
    /\ delivered = {}
    /\ steps \in ShotScripts
    /\ screenshot_every_step = TRUE
    /\ spc = "idle"
    /\ idx = 0
    /\ results = <<>>
    /\ ops = <<>>
    /\ raised = {}
    /\ thrown = <<>>
    /\ seen = <<>>
    /\ query = NoQuery
    /\ answer = NoAnswer
    /\ _client = 1
    /\ popens = 1
    /\ hs = [id |-> 1, state |-> "result"]
    /\ strays = {}
    /\ rlog = <<>>
    /\ reader = "running"
    /\ dpc = "idle"
    /\ dlog = <<>>

NextShot ==
    \/ RunScript
    \/ StepCalls
    \/ L95_load(Main)
    \/ L95_store(Main)
    \/ L96_send(Main)
    \/ L105_get(Main)
    \/ L115_empty(Main)
    \/ L108_putback(Main)
    \/ L118_putback(Main)
    \/ ReadLine
    \/ StepEnds
    \/ StepLocal
    \/ Return
    \/ Screenshot

SpecShot == InitShot /\ [][NextShot]_vars

(* ------------------------- properties of a step ------------------------- *)

ActionOf(j) == Get(steps[j], "action", "unknown")

Dispatched(j, op) == \E n \in 1..Len(ops) : ops[n].step = j /\ ops[n].op = op

\* the text names a missing idb helper in an error
DependencyPattern(text) == text.marker /\ text.Error

DescribeMissing(j) ==
    /\ Dispatched(j, "ui_describe_all")
    /\ seen[j].describe.ok
    /\ DependencyPattern(seen[j].describe.text)

ToolMissing(j) ==
    /\ \E op \in {"ui_tap", "ui_swipe", "ui_type"} : Dispatched(j, op)
    /\ seen[j].tool.ok
    /\ DependencyPattern(seen[j].tool.text)

\* C21: whenever a tool result a step consumed matches the
\* dependency-missing pattern, the step fails and its StepResult carries
\* the DependencyMissing message, not an element-not-found or
\* text-not-found message.
C21_DependencyMissing ==
    \A j \in 1..Len(seen) : (DescribeMissing(j) \/ ToolMissing(j)) =>
        /\ j <= Len(results)
        /\ ~results[j].success
        /\ results[j].error = IDB_MISSING_MSG

\* the elements the describe call of step j came to
Shown(j) ==
    LET o == seen[j].describe
    IN  IF o.ok /\ o.text.json /\ ~DependencyPattern(o.text)
        THEN _parse_elements(o.text.data, <<>>) ELSE <<>>

\* the elements of els a tap step asks for, by their place in els
Asked(step, els) ==
    {i \in 1..Len(els) :
        IF step.action = "tap_label"
        THEN Matches(els[i], step.label, <<>>, <<>>, Get(step, "fuzzy", TRUE))
        ELSE Matches(els[i], <<>>, step.identifier, <<>>, TRUE)}

OpsOf(j, op) == {n \in 1..Len(ops) : ops[n].step = j /\ ops[n].op = op}

\* C22: a tap_label or tap_id step makes one describe call; when an element
\* matches, exactly one tap is sent, after the describe call and at the
\* centre of the first matching element; when none matches, no tap is sent
\* and the step fails with the element-not-found message.  The script
\* wait, tap_label "Settings", screenshot on a screen without that element
\* returns two entries, a success and a failure, and its third step
\* dispatches nothing.
C22_TapFirstMatch ==
    /\ \A j \in 1..Len(seen) :
          (ActionOf(j) \in {"tap_label", "tap_id"} /\ seen[j].describe.ok) =>
              LET els == Shown(j)
                  hits == Asked(steps[j], els)
                  first == CHOOSE i \in hits : \A k \in hits : i <= k
              IN  /\ Cardinality(OpsOf(j, "ui_describe_all")) = 1
                  /\ hits = {} =>
                        /\ OpsOf(j, "ui_tap") = {}
                        /\ ~results[j].success
                        /\ results[j].error = "Element not found"
                  /\ hits # {} =>
                        /\ Cardinality(OpsOf(j, "ui_tap")) = 1
                        /\ \A n \in OpsOf(j, "ui_tap") :
                              /\ ops[n].args = <<els[first].frame.x + els[first].frame.width \div 2,
                                                 els[first].frame.y + els[first].frame.height \div 2>>
                              /\ \A m \in OpsOf(j, "ui_describe_all") : m < n
    /\ (steps = Scenario /\ Len(seen) >= 2 /\ seen[2].describe.ok) =>
          /\ spc = "returned"
          /\ Len(results) = 2
          /\ results[1].success
          /\ ~results[2].success
          /\ results[2].error = "Element not found"
          /\ \A n \in 1..Len(ops) : ops[n].step <= 2

\* a tap_id step on a screen with two buttons of that identifier tapped the
\* first of them
C22_Witness ==
    /\ Len(seen) = 1
    /\ ActionOf(1) = "tap_id"
    /\ Cardinality(Asked(steps[1], Shown(1))) = 2
    /\ \E n \in OpsOf(1, "ui_tap") : ops[n].args = <<230, 40>>
    /\ results[1].success

\* the text is in the label or the value of an element, letter case apart
OnScreen(text, els) ==
    \E i \in 1..Len(els) :
        \/ StrIn(lower(text), lower(els[i].label))
        \/ StrIn(lower(text), lower(els[i].value))

\* C23: an assert_text step whose describe call returned succeeds exactly
\* when the expected text is, letter case apart, part of the label or of
\* the value of an element of the current set; otherwise, the empty set
\* included, it fails with the text-not-found message and ends the script.
C23_AssertText ==
    \A j \in 1..Len(seen) :
        (ActionOf(j) = "assert_text" /\ seen[j].describe.ok) =>
            /\ results[j].success <=> OnScreen(steps[j].text, Shown(j))
            /\ ~OnScreen(steps[j].text, Shown(j)) =>
                  /\ results[j].error = "Text not found on screen"
                  /\ Len(results) = j
                  /\ spc = "returned"

\* "SET" was found in the value "set" of the only element, whose label is
\* empty
C23_Witness ==
    /\ Len(seen) = 1
    /\ ActionOf(1) = "assert_text"
    /\ steps[1].text = <<"S", "E", "T">>
    /\ Len(Shown(1)) = 1
    /\ Shown(1)[1].label = <<>>
    /\ results[1].success

\* run_script has returned a result whose last entry failed on a missing
\* element or a missing text
DomainFailure ==
    /\ spc = "returned"
    /\ results # <<>>
    /\ results[Len(results)].error \in {"Element not found", "Text not found on screen"}

\* C24: a script that fails on a missing element or a failed assertion
\* ends the script only: the client is not disconnected, it is still the
\* same client on the same running server process, and a call made on it
\* afterwards is sent under a fresh id and, when it returns, returns the
\* response that bears that id.
C24_SessionSurvives ==
    DomainFailure =>
        /\ proc = "running"
        /\ reader = "running"
        /\ dlog = <<>>
        /\ _client = 1
        /\ popens = 1
        /\ Len(started) > Len(results) =>
              /\ outcome[Main].kind # "TransportUnavailable"
              /\ \A i \in 1..Len(results) : started[i] # started[Len(started)]
              /\ outcome[Main].kind = "result" =>
                    /\ outcome[Main].req_id = started[Len(started)]
                    /\ Bears(outcome[Main].msg, outcome[Main].req_id)

\* after the script failed on a missing element, a call on the client
\* returned the response to its id
C24_Witness ==
    /\ DomainFailure
    /\ results[Len(results)].error = "Element not found"
    /\ Len(started) = Len(results) + 1
    /\ outcome[Main].kind = "result"
    /\ call[Main].pc = "idle"

\* The number of frames on the server's input that carry the id r.
Frames(r) == Cardinality({i \in 1..Len(stdin) : stdin[i] = r})

\* The last invocation of _call has ended.
Ended == call[Main].pc = "idle" /\ outcome[Main].kind # "none"

\* run_script goes through the steps once: the entries of the result are
\* those of steps 1, 2, ... in this order, only the last can be a failure,
\* and the describing steps so far made one invocation of _call each.
OncePerStep ==
    /\ idx <= Len(steps)
    /\ Len(results) <= idx
    /\ \A i \in 1..Len(results) :
          /\ results[i].action[1] = i
          /\ ~results[i].success => i = Len(results) /\ spc # "loop"
    /\ spc = "loop" => Len(started) = idx
    /\ spc = "describe" => Len(started) = idx + 1

C26_WireOrder ==
    /\ \A i \in 1..Len(stdin) : Uses(stdin[i]) > 0
    /\ \A i, j \in 1..Len(stdin) : i < j => stdin[i] < stdin[j]

\* The criteria of the query, each as find_element tests it, on the
\* element el.
LabelHolds(el) ==
    IF query.fuzzy THEN StrIn(lower(query.label), lower(el.label)) ELSE el.label = query.label
IdentifierHolds(el) == el.identifier = query.identifier
TypeHolds(el) == lower(el.element_type) = lower(query.element_type)

\* el satisfies every criterion the query provides.
HoldsAll(el) ==
    /\ query.label # <<>> => LabelHolds(el)
    /\ query.identifier # <<>> => IdentifierHolds(el)
    /\ query.element_type # <<>> => TypeHolds(el)

\* The number of criteria the query provides.
Provided ==
    Cardinality({f \in {"label", "identifier", "element_type"} : query[f] # <<>>})

\* C27: find_element returns the first element, in the order of parsing,
\* that satisfies all the criteria provided, and None when no element
\* satisfies them all; it never returns an element that fails one of them.
C27_FirstOfAll ==
    answer.state = "found" =>
        LET els == answer.elements
            all == {i \in 1..Len(els) : HoldsAll(els[i])}
        IN  /\ all = {} => answer.found = <<>>
            /\ all # {} =>
                  \E i \in all :
                      /\ answer.found = <<els[i]>>
                      /\ \A j \in all : i <= j

\* three criteria were given; the first element passes two of them, a
\* later one passes the three and is the one returned
C27_Witness ==
    /\ answer.state = "found"
    /\ Provided = 3
    /\ Len(answer.elements) >= 2
    /\ LabelHolds(answer.elements[1]) /\ IdentifierHolds(answer.elements[1])
    /\ ~TypeHolds(answer.elements[1])
    /\ answer.found # <<>>
    /\ answer.found[1] # answer.elements[1]

\* Only a label was asked for.
LabelOnly == query.label # <<>> /\ query.identifier = <<>> /\ query.element_type = <<>>

\* The label asked for is in the label of el, letter case apart.
Contains(el) == StrIn(lower(query.label), lower(el.label))

\* C28: with fuzzy true a label matches an element whose label contains
\* it, letter case apart; with fuzzy false it matches an element whose
\* label equals it, letter case included. 'set' finds the element
\* labelled 'Settings' with fuzzy true and does not with fuzzy false.
C28_LabelMatching ==
    (answer.state = "found" /\ LabelOnly) =>
        LET els == answer.elements
            hit == {i \in 1..Len(els) :
                      IF query.fuzzy THEN Contains(els[i]) ELSE els[i].label = query.label}
        IN  /\ answer.found = <<>> <=> hit = {}
            /\ answer.found # <<>> => \E i \in hit : answer.found[1] = els[i]
            /\ (query.label = <<"s", "e", "t">> /\ answer.found # <<>>
                   /\ answer.found[1].label = SettingsLabel) => query.fuzzy
            /\ (query.label = <<"s", "e", "t">> /\ ~query.fuzzy) =>
                  \A i \in 1..Len(els) : els[i].label = SettingsLabel => i \notin hit

\* 'set' with fuzzy true has found the element labelled 'Settings'
C28_Witness ==
    /\ answer.state = "found"
    /\ LabelOnly
    /\ query.label = <<"s", "e", "t">>
    /\ query.fuzzy
    /\ answer.found # <<>>
    /\ answer.found[1].label = SettingsLabel

\* C29: whatever fuzzy is, the identifier and the type are matched
\* exactly: the element find_element returns has the identifier asked for
\* and the type asked for, character for character.
C29_ExactIdentifierAndType ==
    (answer.state = "found" /\ answer.found # <<>>) =>
        /\ query.identifier # <<>> => answer.found[1].identifier = query.identifier
        /\ query.element_type # <<>> => answer.found[1].element_type = query.element_type

\* The frame, the label and the identifier of a node, under either of
\* their names.
NodeFrame(d) ==
    IF "frame" \in DOMAIN d /\ DOMAIN d.frame # {} THEN d.frame
    ELSE IF "rect" \in DOMAIN d THEN d.rect ELSE JEmpty
NodeLabel(d) ==
    IF "label" \in DOMAIN d /\ d.label # <<>> THEN d.label
    ELSE IF "accessibilityLabel" \in DOMAIN d THEN d.accessibilityLabel ELSE <<>>
NodeIdentifier(d) ==
    IF "identifier" \in DOMAIN d /\ d.identifier # <<>> THEN d.identifier
    ELSE IF "accessibilityIdentifier" \in DOMAIN d THEN d.accessibilityIdentifier ELSE <<>>

\* The node has a non-empty frame and a non-empty label or identifier.
Yields(d) ==
    DOMAIN NodeFrame(d) # {} /\ (NodeLabel(d) # <<>> \/ NodeIdentifier(d) # <<>>)

RECURSIVE PreOrder(_)
RECURSIVE PreOrderOf(_, _)

\* The nodes of the items from item k on, item after item.
PreOrderOf(items, k) ==
    IF k > Len(items) THEN <<>> ELSE PreOrder(items[k]) \o PreOrderOf(items, k + 1)

\* The nodes of a tree in depth-first pre-order: a node, then what is under
\* its keys children, elements and subtree.
PreOrder(v) ==
    IF v.kind = "list" THEN PreOrderOf(v.items, 1)
    ELSE IF v.kind = "dict"
    THEN <<v.fields>>
         \o (IF "children" \in DOMAIN v.fields THEN PreOrder(v.fields.children) ELSE <<>>)
         \o (IF "elements" \in DOMAIN v.fields THEN PreOrder(v.fields.elements) ELSE <<>>)
         \o (IF "subtree" \in DOMAIN v.fields THEN PreOrder(v.fields.subtree) ELSE <<>>)
    ELSE <<>>

Flat(f) == DOMAIN f = {"x", "y", "width", "height"}
Nested(f) ==
    /\ DOMAIN f = {"origin", "size"}
    /\ DOMAIN f.origin = {"x", "y"}
    /\ DOMAIN f.size = {"width", "height"}

\* C31: every parsed element has a flat frame, with the keys x, y, width
\* and height and nothing else, that holds the values of its node's frame,
\* whether the node gave them flat or nested under origin and size and
\* whatever its level in the tree.
C31_FlatFrames ==
    answer.state # "none" =>
        LET nodes == SelectSeq(PreOrder(query.tree), Yields)
            els == answer.elements
        IN  /\ Len(els) = Len(nodes)
            /\ \A i \in 1..Len(els) :
                  LET f == NodeFrame(nodes[i])
                      g == els[i].frame
                  IN  /\ Flat(g)
                      /\ Flat(f) => g = f
                      /\ Nested(f) =>
                            /\ g.x = f.origin.x /\ g.y = f.origin.y
                            /\ g.width = f.size.width /\ g.height = f.size.height
                      /\ Flat(f) \/ Nested(f)

\* a tree whose root level has a flat frame and a nested one, with a
\* nested and a flat one a level below, has been parsed
C31_Witness ==
    /\ answer.state = "parsed"
    /\ query.tree = JList(<<JDict(SetupNode), JDict(ShelfNode)>>)
    /\ Len(answer.elements) = 4
    /\ answer.elements[2].frame = [x |-> 5, y |-> 7, width |-> 300, height |-> 90]
    /\ answer.elements[3].frame = [x |-> 0, y |-> 200, width |-> 400, height |-> 40]
    /\ answer.elements[4].frame = SettingsNode.frame

\* The step from the current state logs a screenshot capture of run_script,
\* or is an invocation of MCPClient.screenshot.
Captures ==
    \/ \E j \in (Len(ops) + 1)..Len(ops') :
          ops'[j].op \in {"screenshot", "screenshot FAIL_"}
    \/ Len(seen') > Len(seen)

\* C32: a screenshot goes round the protocol. When MCPClient.screenshot
\* runs, and when run_script captures the screenshot of a screenshot step,
\* a bonus or a diagnostic one, no frame is written to the server, no
\* correlation id is taken and no _call is started, and the queue of
\* inbound messages and the messages calls hold are as they were.
C32_ScreenshotOffProtocol ==
    [][Captures =>
          /\ stdin' = stdin
          /\ next_id' = next_id
          /\ started' = started
          /\ response_queue' = response_queue
          /\ call' = call
          /\ delivered' = delivered]_vars

\* the script made a describing call, captured a bonus screenshot and the
\* screenshot of a screenshot step, MCPClient.screenshot ran, and the
\* server's input holds the handshake and that one call
C32_Witness ==
    /\ spc = "returned"
    /\ Len(results) = 2
    /\ \E j \in 1..Len(ops) : ops[j].op = "screenshot" /\ ops[j].step = 1
    /\ \E j \in 1..Len(ops) : ops[j].op = "screenshot" /\ ops[j].step = 2
    /\ seen # <<>>
    /\ stdin = <<1, 2>>
    /\ next_id = 3

\* The state of step j of the script.
Status(j) ==
    IF j <= Len(results)
    THEN IF results[j].success THEN "Succeeded" ELSE "Failed"
    ELSE IF spc = "describe" /\ j = idx + 1 THEN "Running"
    ELSE "Pending"

\* The steps are in order: a step that is not Pending has only Succeeded
\* steps before it, so that at most one is Running and none is started
\* after a Failed one; between two steps the engine is in no call, and it
\* has started at most one call per step.
InOrder ==
    /\ \A j, k \in 1..Len(steps) :
          (j < k /\ Status(k) # "Pending") => Status(j) = "Succeeded"
    /\ Cardinality({j \in 1..Len(steps) : Status(j) = "Running"}) <= 1
    /\ spc \in {"idle", "loop"} => call[Main].pc = "idle"
    /\ spc \in {"idle", "loop", "describe"} =>
          /\ Len(started) <= Len(results) + 1
          /\ Len(started) = Len(results) + 1 => spc = "describe"

\* C33: the script engine is sequential. A step goes from Pending to
\* Running and from Running to Succeeded or Failed, in input order; at most
\* one step is Running; step i + 1 starts only when the result of step i
\* has been appended; once a step has Failed no step changes state any
\* more; and the engine has at most one call in progress.
C33_Sequential ==
    /\ []InOrder
    /\ [][\A j \in 1..Len(steps) :
            /\ Status(j)' # Status(j) =>
                  \/ Status(j) = "Pending" /\ Status(j)' = "Running"
                  \/ Status(j) = "Running" /\ Status(j)' \in {"Succeeded", "Failed"}
            /\ (Status(j) = "Pending" /\ Status(j)' = "Running") =>
                  Len(results) = j - 1 /\ call[Main].pc = "idle"
            /\ (\E k \in 1..Len(steps) : Status(k) = "Failed") => Status(j)' = Status(j)]_vars

\* the first step has Succeeded and the second is Running, in its call
C33_Witness ==
    /\ Len(steps) = 2
    /\ Status(1) = "Succeeded"
    /\ Status(2) = "Running"
    /\ call[Main].pc # "idle"

\* the describe call of step j answered a text that names a missing idb
\* helper or that is not JSON
Unreadable(j) ==
    /\ seen[j].describe.ok
    /\ DependencyPattern(seen[j].describe.text) \/ ~seen[j].describe.text.json

\* what a step raises over an empty list of elements
NothingThere == {"Element not found", "Text not found on screen"}

AllStepsSucceeded ==
    /\ Len(results) = Len(steps)
    /\ \A j \in 1..Len(steps) : results[j].success

\* C35: the passed of the ScriptResult run_script returns is true if and
\* only if every input step was executed and succeeded; when it is true
\* there are as many entries as input steps, and the empty script returns
\* no entry and passed.
C35_PassedIffAllSucceeded ==
    spc = "returned" =>
        /\ passed(results) <=> AllStepsSucceeded
        /\ passed(results) => Len(results) = Len(steps)
        /\ steps = <<>> => results = <<>> /\ passed(results)

\* a script of the longest length has returned with an entry for every
\* step and passed
C35_Witness ==
    /\ spc = "returned"
    /\ Len(steps) = MaxSteps
    /\ Len(results) = MaxSteps
    /\ passed(results)

\* C36: run_script returns a ScriptResult and never raises, whatever its
\* collaborators do, a failure of the lookup of the booted device before
\* the first step included.
C36_NeverRaises == spc # "raised"

\* the call of t is in its loop, the server process has exited and no
\* response bearing its id was enqueued
WaitsInVain(t) ==
    /\ proc = "exited"
    /\ call[t].pc \in {"l105", "l118"}
    /\ ~call[t].answered

\* C37: when the server process exits, of itself or after disconnect, while
\* a _call waits for its response, the reader has stopped at the end of the
\* stream and the _call ends by raising Timeout, not TransportUnavailable,
\* with every message it drained put back in the queue.
C37_EndsWithTimeout ==
    /\ [](proc = "exited" => reader # "running")
    /\ [][\A t \in Callers :
            (WaitsInVain(t) /\ call'[t].pc = "idle") =>
                /\ outcome'[t].kind = "Timeout"
                /\ outcome'[t].dropped = {}
                /\ \A n \in outcome'[t].drained :
                      \E i \in 1..Len(response_queue') : response_queue'[i].seq = n]_vars

\* the call of t has not sent its frame yet
BeforeSend(t) == call[t].pc \in {"l95", "l95s", "l96"}

\* C38: once the server process of the singleton client has exited, by a
\* crash or after disconnect, get_client never establishes the connection
\* again: it keeps returning the same client, no new process is started,
\* and every capability call made through it from then on writes no frame
\* and fails with TransportUnavailable.
C38_NeverReestablished ==
    [][proc = "exited" =>
          /\ proc' = "exited"
          /\ _client' = _client
          /\ popens' = popens
          /\ reader' # "running"
          /\ stdin' = stdin
          /\ \A t \in Callers :
                /\ call[t].pc = "idle" /\ call'[t].pc # "idle" =>
                      _client # 0 /\ BeforeSend(t)'
                /\ BeforeSend(t) =>
                      \/ BeforeSend(t)'
                      \/ /\ call'[t].pc = "idle"
                         /\ outcome'[t].kind = "TransportUnavailable"]_vars

\* the session was established, the process exited, and a call made
\* afterwards has failed with TransportUnavailable on the same client
C38_Witness ==
    /\ proc = "exited"
    /\ hs.state = "result"
    /\ _client = 1
    /\ popens = 1
    /\ Len(started) >= 2
    /\ outcome[Main].kind = "TransportUnavailable"
    /\ outcome[Main].req_id > hs.id
    /\ stdin = <<hs.id>>

====
